---------------------------- MODULE Spec2Model ----------------------------
(***************************************************************************)
(* p_tqdm: map functions with a progress bar (src/p_tqdm/p_tqdm.py).       *)
(*                                                                         *)
(* One behaviour of the model is one call of a facade (p_map, p_imap, ...) *)
(* or of _parallel itself: the generator it creates, the consumer that     *)
(* advances or abandons it, the pathos pool the generator constructs, the  *)
(* pool's task feeder and workers, and the tqdm bar the results pass       *)
(* through.                                                                *)
(***************************************************************************)
EXTENDS Integers, Sequences, FiniteSets

\* ------------------------------------------------------------- bounds
MaxLen == 3      \* longest input iterable
MaxCpus == 2     \* largest detected cpu_count()
MaxInt == 2      \* largest integer num_cpus passed
MaxQuarters == 6 \* largest float num_cpus passed, in quarters (6 = 1.5)
MaxTotal == 2    \* largest total= passed

VARIABLES
    call,    \* the call: entry point, engine, ordered, mode, aslist
    kw,      \* the keyword arguments: num_cpus, total, and cpu_count()'s answer
    iters,   \* the iterables: <<[items, sized], ...>>
    pc,      \* the generator: created, waiting, yielded, done, raised, closed
    err,     \* the exception that left the generator ("none" if none)
    nodes,   \* local num_cpus once lines 34-40 have run (None before)
    pool,    \* the pool: [state: none | held | cleared, kind, nodes]
    bar,     \* the tqdm bar: [made, total, n]
    pos,     \* pos[j]: elements pulled so far from iterable j
    fed,     \* the zip of the iterables is exhausted
    task,    \* task[i]: work item i is queued, running, ok or failed
    items,   \* completed work items the consumer can take, in delivery order
    index,   \* work items handed on to the consumer's queue so far
    order,   \* the work items in the order the workers completed them
    out,     \* the results yielded to the consumer, in order
    calls    \* invocations of the user function

vars == <<call, kw, iters, pc, err, nodes, pool, bar, pos, fed, task, items, index, order, out, calls>>

\* ------------------------------------------------------------ options
\* Python's None / a value, for total= and the bar's bound.
None == [set |-> FALSE, val |-> 0]
Some(v) == [set |-> TRUE, val |-> v]

\* num_cpus= : omitted, an int, or a float given in quarters (exact in binary).
CpusNone == [kind |-> "none", val |-> 0]
CpusInt(n) == [kind |-> "int", val |-> n]
CpusFloat(q) == [kind |-> "float", val |-> q]

\* Python 3 round() of q/4: to the nearest integer, a tie to the even one.
RoundQuarters(p) ==
    LET fl == p \div 4
        rem == p % 4
    IN  IF rem < 2 THEN fl
        ELSE IF rem > 2 THEN fl + 1
        ELSE IF fl % 2 = 0 THEN fl ELSE fl + 1

\* Lines 34-40: the worker count from num_cpus= and cpu_count().
ResolveCpus(n, cpu) ==
    IF n.kind = "none" THEN cpu
    ELSE IF n.kind = "float" THEN RoundQuarters(n.val * cpu)
    ELSE n.val

Min(S) == CHOOSE m \in S : \A x \in S : m <= x

\* Mutant of SizedLengths: the length of every iterable is asked for.
AllLengths(its) == {Len(its[j].items) : j \in DOMAIN its}

\* Line 44: the lengths of the sized iterables.
SizedLengths(its) == {Len(its[j].items) : j \in {k \in DOMAIN its : its[k].sized}}

\* Line 45: length = total or (min(lengths) if lengths else None).
\* A total of 0 is falsy, so it falls through to the inferred length.
TqdmLength(total, its) ==
    IF total.set /\ total.val # 0 THEN Some(total.val)
    ELSE IF SizedLengths(its) # {} THEN Some(Min(SizedLengths(its)))
    ELSE None

\* Mutant of ModeOk: the assertion does not stop an unknown mode.
ModeUnchecked(mode) == TRUE

\* Line 49: the assertion on mode.
ModeOk(mode) == mode # "" /\ mode \in {"parallel", "threading"}

\* ----------------------------------------------------- user function
\* The user function of the model: f(x) = 6 // x, f(x, y) = 6 // x + y.
\* It raises ZeroDivisionError on x = 0.
Fails(a) == a[1] = 0
F(a) == (6 \div a[1]) + (IF Len(a) > 1 THEN a[2] ELSE 0)

\* -------------------------------------------------------------- zip
\* The arguments of work item i: position i of every iterable.
ArgsAt(its, i) == [j \in DOMAIN its |-> its[j].items[i]]

\* zip's next(): the iterators are advanced left to right; the first one
\* found exhausted ends the zip, after those before it have moved.
Exhausted(its, p) == {j \in DOMAIN its : p[j] >= Len(its[j].items)}
ZipStops(its, p) == Exhausted(its, p) # {}
\* Mutant of ZipPull: a zip that ends without having moved any iterator.
ZipPullPeek(its, p) ==
    IF ZipStops(its, p) THEN p ELSE [j \in DOMAIN its |-> p[j] + 1]

ZipPull(its, p) ==
    IF ZipStops(its, p)
    THEN [j \in DOMAIN its |-> IF j < Min(Exhausted(its, p)) THEN p[j] + 1 ELSE p[j]]
    ELSE [j \in DOMAIN its |-> p[j] + 1]


\* Line 56, map_func(function, *iterables): the length of the zip, which is
\* the number of work items.
ZipLength(its) == Min({Len(its[j].items) : j \in DOMAIN its})

\* ------------------------------------------------------ pool results
Completed(st) == st \in {"ok", "failed"}

\* Mutant of ImapSet: a completed item is handed on with the completed
\* items that follow it, whether or not the items before it are there.
ImapSetNoWait(q, tk, idx, i) ==
    LET run == {k \in i..Len(tk) : \A m \in i..k : Completed(tk[m])}
    IN  [items |-> q \o [n \in 1..Cardinality(run) |-> i + n - 1],
         index |-> idx + Cardinality(run)]

\* Mutant of ImapSet: nothing is handed on before every work item queued so
\* far has completed.
ImapSetBatch(q, tk, idx, i) ==
    IF \A m \in DOMAIN tk : Completed(tk[m])
    THEN [items |-> q \o [n \in 1..(Len(tk) - idx) |-> idx + n], index |-> Len(tk)]
    ELSE [items |-> q, index |-> idx]

\* pool.imap: a completed item is handed on only when every item before it
\* has been; until then it waits in the pool's reorder buffer.
ImapSet(q, tk, idx, i) ==
    IF i = idx + 1
    THEN LET run == {k \in i..Len(tk) : \A m \in i..k : Completed(tk[m])}
         IN  [items |-> q \o [n \in 1..Cardinality(run) |-> idx + n],
              index |-> idx + Cardinality(run)]
    ELSE [items |-> q, index |-> idx]

\* Mutant of UimapSet: a result that arrives while another waits is lost.
UimapSetOverwrite(q, tk, idx, i) ==
    [items |-> IF q = <<>> THEN <<i>> ELSE q, index |-> idx + 1]

\* Mutant of UimapSet: the newest result is handed on first.
UimapSetLifo(q, tk, idx, i) == [items |-> <<i>> \o q, index |-> idx + 1]

\* pool.uimap: a completed item is handed on at once.
UimapSet(q, tk, idx, i) == [items |-> Append(q, i), index |-> idx + 1]

\* Mutant of SetResult: the unordered map is taken whatever `ordered` says.
SetResultUnordered(ordered, q, tk, idx, i) == UimapSet(q, tk, idx, i)

\* Lines 48 and 51: map_type is 'imap' if ordered, else 'uimap'.
SetResult(ordered, q, tk, idx, i) ==
    IF ordered THEN ImapSet(q, tk, idx, i) ELSE UimapSet(q, tk, idx, i)

\* Mutant of StreamEnd: the loop ends as soon as nothing is waiting, while
\* work items are still queued or running.
StreamEndEarly(fd, q, idx, tk) == fd /\ q = <<>>

\* Mutant of StreamEnd: the end of the stream is looked for one item too far.
StreamEndLate(fd, q, idx, tk) == fd /\ q = <<>> /\ idx = Len(tk) + 1

\* Line 56: the for loop ends when the pool's iterator has handed on every
\* work item of the exhausted zip and the consumer has taken them all.
StreamEnd(fd, q, idx, tk) == fd /\ q = <<>> /\ idx = Len(tk)

Running(tk) == {i \in DOMAIN tk : tk[i] = "running"}
Queued(tk) == {i \in DOMAIN tk : tk[i] = "queued"}

\* Mutant of WorkerFree: one worker more than the pool was made with.
WorkerFreeOneMore(tk, n) == Cardinality(Running(tk)) < n + 1

\* Line 50: the pool is made with num_cpus workers; one of them is free.
WorkerFree(tk, n) == Cardinality(Running(tk)) < n

\* Mutant of Tick: the bar counts an item twice.
TickTwice(b) == [b EXCEPT !.n = @ + 2]

\* Lines 56 and 149: an item passes through the tqdm wrapper, which counts it.
Tick(b) == [b EXCEPT !.n = @ + 1]

\* Mutant of NoPool: the pool is made when the facade is called.
EagerPool == [state |-> "held", kind |-> "process", nodes |-> 1]

\* Lines 74-76: the facade returns the generator without running its body;
\* no pool exists until line 50 runs.
NoPool == [state |-> "none", kind |-> "none", nodes |-> 0]

\* ---------------------------------------------------------- the call
\* The facades (lines 61-252) and what each passes to its engine.
Facade(entry, engine, ordered, mode, aslist) ==
    [entry |-> entry, engine |-> engine, ordered |-> ordered, mode |-> mode,
     aslist |-> aslist]

Facades ==
    { Facade("p_imap", "_parallel", TRUE, "parallel", FALSE),
      Facade("p_map", "_parallel", TRUE, "parallel", TRUE),
      Facade("p_uimap", "_parallel", FALSE, "parallel", FALSE),
      Facade("p_umap", "_parallel", FALSE, "parallel", TRUE),
      Facade("s_imap", "_sequential", TRUE, "sequential", FALSE),
      Facade("s_map", "_sequential", TRUE, "sequential", TRUE),
      Facade("t_imap", "_parallel", TRUE, "threading", FALSE),
      Facade("t_map", "_parallel", TRUE, "parallel", TRUE),
      Facade("t_uimap", "_parallel", FALSE, "threading", FALSE),
      Facade("t_umap", "_parallel", FALSE, "parallel", TRUE) }

\* _parallel called with a mode that line 49 does not know.
DirectCalls ==
    { Facade("_parallel", "_parallel", o, m, FALSE) : o \in BOOLEAN, m \in {"bogus", ""} }

\* ------------------------------------------------------------- inputs
Vals == {0, 1, 2}
SeqsUpTo(S, n) == UNION {[1..k -> S] : k \in 0..n}
\* A second iterable: 10, 20, ... of a given length.
Tens(n) == [i \in 1..n |-> 10 * i]
Iterable(xs, sized) == [items |-> xs, sized |-> sized]

Setup(Calls, Firsts, Seconds, NumCpus, CpuCounts, Totals) ==
    /\ call \in Calls
    /\ iters \in {<<a>> : a \in Firsts} \cup {<<a, b>> : a \in Firsts, b \in Seconds}
    /\ kw \in [num_cpus : NumCpus, cpu : CpuCounts, total : Totals]
    /\ pc = "created"
    /\ err = "none"
    /\ nodes = None
    /\ pool = NoPool
    /\ bar = [made |-> FALSE, total |-> None, n |-> 0]
    /\ pos = [j \in DOMAIN iters |-> 0]
    /\ fed = FALSE
    /\ task = <<>>
    /\ items = <<>>
    /\ index = 0
    /\ order = <<>>
    /\ out = <<>>
    /\ calls = 0

\* A first iterable 1, 2, 0, 1, 2, 0, ... of a given length.
Counting(n) == [i \in 1..n |-> i % 3]
\* A first iterable 2, 1, 2, 1, ... of a given length: the function returns
\* on all of it.
Steps(n) == [i \in 1..n |-> 1 + (i % 2)]
NumCpusArgs ==
    {CpusNone} \cup {CpusInt(n) : n \in -1..MaxInt} \cup {CpusFloat(q) : q \in 1..MaxQuarters}
TotalArgs == {None} \cup {Some(t) : t \in -1..MaxTotal}

\* Every facade under every interleaving of the workers, on any values.
Init ==
    Setup(Facades \cup DirectCalls,
          {Iterable(xs, TRUE) : xs \in SeqsUpTo(Vals, MaxLen)},
          {Iterable(Tens(n), TRUE) : n \in 0..MaxLen},
          {CpusNone}, 1..MaxCpus, {None})

\* Every facade on iterables of any two lengths, sized or not, with and
\* without total=.
InitLengths ==
    Setup(Facades \cup DirectCalls,
          {Iterable(xs, s) : xs \in {Counting(n) : n \in 0..MaxLen}
                                       \cup {Steps(n) : n \in 0..MaxLen},
                             s \in BOOLEAN},
          {Iterable(Tens(n), s) : n \in 0..MaxLen, s \in BOOLEAN},
          {CpusNone}, {MaxCpus}, TotalArgs)

\* Every facade with every num_cpus= on every machine.
InitWorkers ==
    Setup(Facades \cup DirectCalls,
          {Iterable(xs, TRUE) : xs \in {Counting(n) : n \in 0..MaxLen}
                                          \cup {Steps(n) : n \in 0..MaxLen}},
          {},
          NumCpusArgs, 1..MaxCpus, {None})

\* Every facade on inputs the function returns on and on inputs it fails on,
\* on every machine.
InitFair ==
    Setup(Facades \cup DirectCalls,
          {Iterable(xs, TRUE) : xs \in {Counting(n) : n \in 0..MaxLen}
                                          \cup {Steps(n) : n \in 0..MaxLen}},
          {Iterable(Tens(n), TRUE) : n \in 0..MaxLen},
          {CpusNone}, 1..MaxCpus, {None})

\* ------------------------------------------------------------ _parallel
\* The first next() of the generator: lines 33-56, up to the first wait
\* for a result.
Start ==
    /\ pc = "created"
    /\ call.engine = "_parallel"
    /\ nodes' = Some(ResolveCpus(kw.num_cpus, kw.cpu))
    /\ IF ~ModeOk(call.mode)
       THEN /\ pc' = "raised"
            /\ err' = "AssertionError"
            /\ UNCHANGED <<pool, bar>>
       ELSE IF nodes'.val < 1
       THEN \* ProcessPool(n) and ThreadPool(n) refuse n < 1
            /\ pc' = "raised"
            /\ err' = "ValueError"
            /\ UNCHANGED <<pool, bar>>
       ELSE /\ pool' = [state |-> "held",
                        kind |-> IF call.mode = "parallel" THEN "process" ELSE "thread",
                        nodes |-> nodes'.val]
            /\ bar' = [made |-> TRUE, total |-> TqdmLength(kw.total, iters), n |-> 0]
            /\ pc' = "waiting"
            /\ err' = err
    /\ UNCHANGED <<call, kw, iters, pos, fed, task, items, index, order, out, calls>>

\* The pool's task feeder takes the next tuple of the zip and queues it.
Feed ==
    /\ pool.state = "held"
    /\ ~fed
    /\ pos' = ZipPull(iters, pos)
    /\ IF ZipStops(iters, pos)
       THEN fed' = TRUE /\ task' = task
       ELSE fed' = fed /\ task' = Append(task, "queued")
    /\ UNCHANGED <<call, kw, iters, pc, err, nodes, pool, bar, items, index, order, out, calls>>

\* A free worker takes the oldest queued item and calls the function on it.
WorkerStart ==
    /\ pool.state = "held"
    /\ Queued(task) # {}
    /\ WorkerFree(task, pool.nodes)
    /\ task' = [task EXCEPT ![Min(Queued(task))] = "running"]
    /\ calls' = calls + 1
    /\ UNCHANGED <<call, kw, iters, pc, err, nodes, pool, bar, pos, fed, items, index, order, out>>

\* The function returns or raises on item i; the pool records the outcome.
WorkerFinish(i) ==
    /\ pool.state = "held"
    /\ task[i] = "running"
    /\ task' = [task EXCEPT ![i] = IF Fails(ArgsAt(iters, i)) THEN "failed" ELSE "ok"]
    /\ LET r == SetResult(call.ordered, items, task', index, i)
       IN  items' = r.items /\ index' = r.index
    /\ order' = Append(order, i)
    /\ UNCHANGED <<call, kw, iters, pc, err, nodes, pool, bar, pos, fed, out, calls>>

\* Lines 56-57: the next result is there; it passes through tqdm and is
\* yielded, or the exception of its work item is raised out of the generator.
Deliver ==
    /\ pc = "waiting"
    /\ call.engine = "_parallel"
    /\ items # <<>>
    /\ items' = Tail(items)
    /\ IF task[Head(items)] = "ok"
       THEN /\ out' = Append(out, F(ArgsAt(iters, Head(items))))
            /\ bar' = Tick(bar)
            /\ pc' = "yielded"
            /\ err' = err
       ELSE /\ pc' = "raised"
            /\ err' = "WorkerFailure"
            /\ UNCHANGED <<out, bar>>
    /\ UNCHANGED <<call, kw, iters, nodes, pool, pos, fed, task, index, order, calls>>

\* Lines 56-59: the pool's iterator is exhausted, the loop ends and
\* pool.clear() runs.
Finish ==
    /\ pc = "waiting"
    /\ call.engine = "_parallel"
    /\ StreamEnd(fed, items, index, task)
    /\ pool' = [pool EXCEPT !.state = "cleared"]
    /\ pc' = "done"
    /\ UNCHANGED <<call, kw, iters, err, nodes, bar, pos, fed, task, items, index, order, out, calls>>

\* ---------------------------------------------------------- _sequential
\* The first next(): lines 145-149 up to the first item.
SeqStart ==
    /\ pc = "created"
    /\ call.engine = "_sequential"
    /\ IF SizedLengths(iters) = {}
       THEN \* min() of an empty sequence
            pc' = "raised" /\ err' = "ValueError" /\ bar' = bar
       ELSE IF kw.total.set
       THEN \* tqdm(..., total=length, **kwargs): total given twice
            pc' = "raised" /\ err' = "TypeError" /\ bar' = bar
       ELSE IF kw.num_cpus.kind # "none"
       THEN \* tqdm refuses a keyword it does not know
            pc' = "raised" /\ err' = "TqdmKeyError" /\ bar' = bar
       ELSE /\ bar' = [made |-> TRUE, total |-> Some(Min(SizedLengths(iters))), n |-> 0]
            /\ pc' = "waiting"
            /\ err' = err
    /\ UNCHANGED <<call, kw, iters, nodes, pool, pos, fed, task, items, index, order, out, calls>>

\* Lines 149-150: map() takes the next tuple and calls the function on it.
SeqStep ==
    /\ pc = "waiting"
    /\ call.engine = "_sequential"
    /\ pos' = ZipPull(iters, pos)
    /\ IF ZipStops(iters, pos)
       THEN /\ fed' = TRUE
            /\ pc' = "done"
            /\ UNCHANGED <<err, out, bar, calls>>
       ELSE /\ fed' = fed
            /\ calls' = calls + 1
            /\ IF Fails(ArgsAt(iters, pos[1] + 1))
               THEN /\ pc' = "raised"
                    /\ err' = "WorkerFailure"
                    /\ UNCHANGED <<out, bar>>
               ELSE /\ out' = Append(out, F(ArgsAt(iters, pos[1] + 1)))
                    /\ bar' = Tick(bar)
                    /\ pc' = "yielded"
                    /\ err' = err
    /\ UNCHANGED <<call, kw, iters, nodes, pool, task, items, index, order>>

\* ------------------------------------------------------------ consumer
\* The consumer (or list(), in a list facade) asks for the next item.
Request ==
    /\ pc = "yielded"
    /\ pc' = "waiting"
    /\ UNCHANGED <<call, kw, iters, err, nodes, pool, bar, pos, fed, task, items, index, order, out, calls>>

\* The consumer abandons the iterator: generator.close() raises GeneratorExit
\* at the yield of line 57, or ends a generator that never ran.
Close ==
    /\ pc \in {"created", "yielded"}
    /\ ~call.aslist
    /\ pc' = "closed"
    /\ UNCHANGED <<call, kw, iters, err, nodes, pool, bar, pos, fed, task, items, index, order, out, calls>>

Next ==
    \/ Start
    \/ Feed
    \/ WorkerStart
    \/ \E i \in DOMAIN task : WorkerFinish(i)
    \/ Deliver
    \/ Finish
    \/ SeqStart
    \/ SeqStep
    \/ Request
    \/ Close

Spec == Init /\ [][Next]_vars
SpecLengths == InitLengths /\ [][Next]_vars
SpecWorkers == InitWorkers /\ [][Next]_vars

\* The scheduling the liveness of a map rests on: a generator that is being
\* advanced runs on (Start, Deliver, Finish, SeqStart, SeqStep), the pool's
\* feeder and workers are scheduled (Feed, WorkerStart), every call of the
\* function ends (WorkerFinish), and the consumer asks for the next item
\* unless it abandons the iterator (Request).
Fairness ==
    /\ WF_vars(Start) /\ WF_vars(SeqStart) /\ WF_vars(SeqStep)
    /\ WF_vars(Feed) /\ WF_vars(WorkerStart)
    /\ WF_vars(\E i \in DOMAIN task : WorkerFinish(i))
    /\ WF_vars(Deliver) /\ WF_vars(Finish)
    /\ WF_vars(Request)
SpecFair == InitFair /\ [][Next]_vars /\ Fairness

\* ================================================================ claims
Parallel == call.engine = "_parallel" /\ ModeOk(call.mode)
IsPrefix(a, b) == Len(a) <= Len(b) /\ \A i \in DOMAIN a : a[i] = b[i]
Count(v, xs) == Cardinality({i \in DOMAIN xs : xs[i] = v})

\* The first work item the function fails on (one past the last, if none).
FirstFail(its) ==
    Min({i \in 1..ZipLength(its) : Fails(ArgsAt(its, i))} \cup {ZipLength(its) + 1})
\* A plain sequential application of the function: f(x0), f(x1), ... up to
\* the first failure.
SeqApply(its) == [i \in 1..(FirstFail(its) - 1) |-> F(ArgsAt(its, i))]
\* The work items the function returns on.
Returning(its) == {i \in 1..ZipLength(its) : ~Fails(ArgsAt(its, i))}

\* C1: the ordered parallel map yields f(x0), f(x1), ..., f(x(n-1)) in input
\* order under every interleaving of the workers: what it has yielded is
\* always a prefix of the sequential application, and at end-of-stream it is
\* the whole of it, one result per work item.
C1_OrderedIsSequential ==
    (Parallel /\ call.ordered) =>
        /\ IsPrefix(out, SeqApply(iters))
        /\ pc = "done" => (out = SeqApply(iters) /\ Len(out) = ZipLength(iters))

\* The first result has been yielded while item 3 completed before item 2.
C1_Witness ==
    /\ Parallel /\ call.ordered
    /\ Len(task) = 3 /\ task[2] = "running" /\ task[3] = "ok"
    /\ Len(out) = 1 /\ out = SubSeq(SeqApply(iters), 1, 1)
    /\ iters[1].items[2] # iters[1].items[3]

\* C2: the unordered parallel map yields the same multiset as the ordered
\* one (which by C1 is the sequential application): never a result that is
\* not one of the work items', never one more often than the work items
\* produce it, and at end-of-stream every one of them.
C2_UnorderedSameMultiset ==
    (Parallel /\ ~call.ordered) =>
        /\ \A k \in DOMAIN out :
              Count(out[k], out)
                  <= Cardinality({i \in Returning(iters) : F(ArgsAt(iters, i)) = out[k]})
        /\ pc = "done" =>
              /\ Len(out) = Len(SeqApply(iters))
              /\ \A k \in DOMAIN out : Count(out[k], out) = Count(out[k], SeqApply(iters))
              /\ \A k \in DOMAIN SeqApply(iters) :
                    Count(SeqApply(iters)[k], out)
                        = Count(SeqApply(iters)[k], SeqApply(iters))

\* An unordered map ended having yielded its results in another order than
\* the input's.
C2_Witness ==
    /\ Parallel /\ ~call.ordered
    /\ pc = "done"
    /\ Len(out) = 3
    /\ out # SeqApply(iters)

\* C3 as stated: a map that ends without an error has yielded as many
\* results as the shortest input is long, or as many as total= says when
\* total= is given.
C3_Original ==
    pc = "done" =>
        Len(out) = IF kw.total.set THEN kw.total.val ELSE ZipLength(iters)

\* C3 as amended: a map that ends without an error has yielded exactly as
\* many results as the shortest input is long, whether or not total= is
\* given, and no map ever yields more.
C3_OutputCountIsShortest ==
    /\ Len(out) <= ZipLength(iters)
    /\ pc = "done" => Len(out) = ZipLength(iters)

\* A map ended with total= given and different from the shortest length.
C3_Witness ==
    /\ pc = "done"
    /\ kw.total.set /\ kw.total.val # ZipLength(iters)
    /\ Len(out) = ZipLength(iters) /\ Len(out) > 0

\* The first of the shortest inputs, in argument order.
FirstShortest(its) == Min({j \in DOMAIN its : Len(its[j].items) = ZipLength(its)})

\* C4 as stated: with two inputs of lengths L1 < L2, in either order, a map
\* run to exhaustion has pulled exactly L1 elements from each.
C4_Original ==
    (pc = "done" /\ Len(iters) = 2 /\ Len(iters[1].items) # Len(iters[2].items)) =>
        \A j \in DOMAIN iters : pos[j] = ZipLength(iters)

\* C4 as amended: a map run to exhaustion has pulled L1 elements from the
\* shorter input and from a longer input that follows it, and L1 + 1 from a
\* longer input that precedes it; no map pulls more than that, and the
\* function is called on exactly L1 work items.
C4_ZipConsumption ==
    /\ \A j \in DOMAIN iters :
          pos[j] <= ZipLength(iters) + (IF j < FirstShortest(iters) THEN 1 ELSE 0)
    /\ pc = "done" =>
          /\ \A j \in DOMAIN iters :
                pos[j] = ZipLength(iters) + (IF j < FirstShortest(iters) THEN 1 ELSE 0)
          /\ calls = ZipLength(iters)

\* A map ran to exhaustion with the longer input first: one element past
\* the shorter input's length was pulled from it.
C4_Witness ==
    /\ pc = "done"
    /\ Len(iters) = 2
    /\ Len(iters[1].items) > Len(iters[2].items)
    /\ Len(iters[2].items) > 0
    /\ pos[1] = Len(iters[2].items) + 1
    /\ pos[2] = Len(iters[2].items)

\* C5 as stated: once the consumer has abandoned the stream of a parallel
\* map, the pool made for it is released.
C5_Original ==
    (call.engine = "_parallel" /\ pc = "closed" /\ pool.state # "none") =>
        pool.state = "cleared"

\* C6: in an ordered parallel map whose first failing item is k, the
\* consumer has the results of items 0..k-1, in order, when the failure
\* reaches it, and nothing is yielded after it; before it, no result of an
\* item from k on is ever yielded.
C6_OrderedFailure ==
    (Parallel /\ call.ordered) =>
        /\ Len(out) < FirstFail(iters)
        /\ (pc = "raised" /\ err = "WorkerFailure") =>
              (out = SeqApply(iters) /\ Len(out) = FirstFail(iters) - 1)

\* The failure of item k reached the consumer after the results before it,
\* with an item after k completed or failed as well.
C6_Witness ==
    /\ Parallel /\ call.ordered
    /\ pc = "raised" /\ err = "WorkerFailure"
    /\ Len(out) >= 1
    /\ Len(task) > FirstFail(iters)
    /\ Completed(task[FirstFail(iters) + 1])

\* C7 as stated: once the failure of a work item has reached the consumer
\* of a parallel map, the pool made for it is released.
C7_Original ==
    (call.engine = "_parallel" /\ pc = "raised" /\ err = "WorkerFailure") =>
        pool.state = "cleared"

C9_Original ==
    (Parallel /\ nodes.set
        /\ (kw.num_cpus.kind = "int" => kw.num_cpus.val >= 1)
        /\ (kw.num_cpus.kind = "float" => kw.num_cpus.val >= 1)) =>
        /\ nodes.val >= 1
        /\ kw.num_cpus.kind = "none" => nodes.val = kw.cpu
        /\ kw.num_cpus.kind = "int" => nodes.val = kw.num_cpus.val
        /\ kw.num_cpus.kind = "float" =>
              \/ 4 * nodes.val - kw.num_cpus.val * kw.cpu \in -2..2
              \/ (nodes.val = 1 /\ kw.num_cpus.val * kw.cpu < 4)

\* C10 as stated: the bar of a parallel map is given the bound T when
\* total=T is passed, for every T >= 0; without total=, the least length of
\* the sized inputs, and no bound when no input is sized.
C10_Original ==
    (call.engine = "_parallel" /\ bar.made) =>
        bar.total = IF kw.total.set THEN Some(kw.total.val)
                    ELSE IF SizedLengths(iters) # {} THEN Some(Min(SizedLengths(iters)))
                    ELSE None

\* C11 as stated: a worker count that resolves to zero or less, or a
\* negative total=, is refused before any worker starts: no pool is made and
\* the function is never called.
C11_Original ==
    (call.engine = "_parallel" /\ pc \notin {"created", "closed"}
        /\ (nodes.val < 1 \/ (kw.total.set /\ kw.total.val < 0))) =>
        /\ pc = "raised"
        /\ err \in {"AssertionError", "ValueError"}
        /\ pool.state = "none"
        /\ calls = 0

\* C12 as stated: the list facades of the thread mode, t_map and t_umap,
\* run the function on a thread pool, as t_imap and t_uimap do.
C12_Original ==
    (call.entry \in {"t_imap", "t_map", "t_uimap", "t_umap"} /\ pool.state # "none") =>
        pool.kind = "thread"

\* C13 as stated: s_imap and s_map called with total=T run without an error
\* of their own and hand T to the bar as its bound.
C13_Original ==
    (call.engine = "_sequential" /\ kw.total.set /\ kw.total.val >= 0
        /\ SizedLengths(iters) # {}
        /\ pc \notin {"created", "closed"}) =>
        /\ err \in {"none", "WorkerFailure"}
        /\ bar.made
        /\ bar.total = Some(kw.total.val)

\* The work items completed so far.
Done(tk) == {i \in DOMAIN tk : Completed(tk[i])}

\* C14: results are streamed. In an ordered map output i is yielded only
\* when items 0..i have completed, and once they have, it is there for the
\* waiting consumer whatever the state of the items after i; in an unordered
\* map any completed result not yet yielded is there for the waiting
\* consumer while other items are queued or running.
C14_Streaming ==
    Parallel =>
        /\ call.ordered =>
              /\ \A i \in 1..Len(out) : i \in Done(task)
              /\ (pc = "waiting" /\ Len(out) + 1 \in Done(task)) =>
                    (items # <<>> /\ Head(items) = Len(out) + 1)
        /\ ~call.ordered =>
              ((pc = "waiting" /\ Cardinality(Done(task)) > Len(out)) => items # <<>>)

\* The first result of an ordered map has been yielded while an item runs
\* and the inputs are not yet read to their end.
C14_Witness ==
    /\ Parallel /\ call.ordered
    /\ pc = "yielded" /\ Len(out) = 1
    /\ Running(task) # {}
    /\ ~fed

C17_BoundedConcurrency ==
    /\ call.engine = "_parallel" =>
          /\ Cardinality(Running(task)) <= pool.nodes
          /\ pool.state # "none" =>
                (pool.nodes = nodes.val /\ nodes.val = ResolveCpus(kw.num_cpus, kw.cpu))
    /\ call.engine = "_sequential" =>
          /\ pool.state = "none" /\ task = <<>>
          /\ calls = Len(out) + (IF err = "WorkerFailure" THEN 1 ELSE 0)

\* As many items run as the pool has workers, with another one queued.
C17_Witness ==
    /\ Parallel
    /\ pool.nodes = 2
    /\ Cardinality(Running(task)) = 2
    /\ Queued(task) # {}

\* The place in the completion order of the first item the function failed on.
FirstFailed == Min({k \in DOMAIN order : task[order[k]] = "failed"})

\* C18: in an unordered map, when the failure of a work item reaches the
\* consumer, the consumer has been yielded exactly the results that
\* completed before that item failed, in the order they completed; the
\* failure that reaches it is the first to have happened, it is the only
\* one, and nothing is yielded after it.
C18_UnorderedFailure ==
    /\ [](  (Parallel /\ ~call.ordered /\ pc = "raised" /\ err = "WorkerFailure") =>
              out = [k \in 1..(FirstFailed - 1) |-> F(ArgsAt(iters, order[k]))]  )
    /\ [][pc = "raised" => (pc' = "raised" /\ err' = err /\ out' = out)]_vars

\* A failure reached the consumer of an unordered map after a result that
\* had completed before it, with two items failed.
C18_Witness ==
    /\ Parallel /\ ~call.ordered
    /\ pc = "raised" /\ err = "WorkerFailure"
    /\ Len(out) >= 1
    /\ Cardinality({i \in DOMAIN task : task[i] = "failed"}) = 2

Unsized(its) == {j \in DOMAIN its : ~its[j].sized}
\* The least length among the sized inputs, or no bound when none is sized.
LeastSized(its) ==
    IF Unsized(its) = DOMAIN its THEN None
    ELSE Some(Min({Len(its[j].items) : j \in DOMAIN its \ Unsized(its)}))

\* C19 as stated: the sequential map raises before it applies the function
\* to any item if any input is unsized.
C19_Original ==
    (call.engine = "_sequential" /\ Unsized(iters) # {}) =>
        /\ calls = 0
        /\ pc \in {"created", "closed", "raised"}

\* C19 as amended: the sequential map raises, before it applies the
\* function to any item, when no input is sized; with at least one sized
\* input it takes its bound from the sized inputs only and does not raise
\* for the unsized ones. The parallel map takes its bound from the sized
\* inputs only when total= is omitted, has no bound when none is sized, and
\* does not raise for unsized inputs.
C19_LengthInference ==
    /\ call.engine = "_sequential" =>
          /\ LeastSized(iters) = None =>
                /\ calls = 0 /\ out = <<>> /\ ~bar.made
                /\ pc \in {"created", "closed", "raised"}
                /\ pc = "raised" => err = "ValueError"
          /\ LeastSized(iters) # None =>
                /\ err # "ValueError"
                /\ bar.made => bar.total = LeastSized(iters)
    /\ Parallel =>
          /\ err \in {"none", "WorkerFailure"}
          /\ (bar.made /\ ~kw.total.set) => bar.total = LeastSized(iters)

\* A sequential map ran to its end on a sized and an unsized input, the
\* unsized one the shorter.
C19_Witness ==
    /\ call.engine = "_sequential"
    /\ Len(iters) = 2 /\ iters[1].sized /\ ~iters[2].sized
    /\ Len(iters[2].items) < Len(iters[1].items)
    /\ pc = "done" /\ Len(out) >= 1
    /\ bar.total = Some(Len(iters[1].items))

\* C20: the iterator facades are lazy. As long as the consumer has not
\* asked for the first item, and if it closes the iterator without ever
\* asking, no option is resolved, no mode is checked, no pool and no bar is
\* made, no input is read, the function is not called and nothing is raised.
C20_Lazy ==
    (pc = "created" \/ (pc = "closed" /\ out = <<>>)) =>
        /\ nodes = None
        /\ pool.state = "none"
        /\ ~bar.made
        /\ err = "none"
        /\ \A j \in DOMAIN pos : pos[j] = 0
        /\ ~fed /\ task = <<>> /\ calls = 0

\* An iterator over a call with an unknown mode was closed without ever
\* being advanced: nothing was raised.
C20_Witness ==
    /\ call.mode = "bogus"
    /\ pc = "closed"
    /\ err = "none" /\ pool.state = "none"

=============================================================================
